---- MODULE Spec2Model ----
(***************************************************************************)
(* A model of src/get_blrindus_data.py: the KIADB plot scraper.            *)
(*                                                                         *)
(*  - plot codes are sequences of one-character strings, so that len(),    *)
(*    slicing, str.isdigit(), int() and the f"{i:02d}" formatting are      *)
(*    modelled by what they compute;                                       *)
(*  - a Python dict is a function whose DOMAIN is its key set; None is the *)
(*    token PyNone;                                                        *)
(*  - process_plotcode is the operator ProcessPlotcode, applied to the     *)
(*    responses the transport hands back (make_request, soap_fallback);    *)
(*  - the per-area script body (lines 249-422) is the state machine Spec,  *)
(*    with the ThreadPoolExecutor workers as interleaved steps.            *)
(***************************************************************************)
EXTENDS Integers, Sequences, FiniteSets, TLC

(***************************************************************************)
(* Program constants.                                                      *)
(***************************************************************************)
\* len(plotcode) == 14 (lines 308, 365, 371)
CODE_LEN == 14
\* plotcode[:12] / plotcode[12:] (lines 308-310)
BASE_LEN == 12
\* range(100) (lines 362, 368): the suffix range 00..99
SUFFIX_RANGE == 100
\* suffix - 5 .. suffix + 5 (line 362): the neighbourhood radius
RADIUS == 5
\* ThreadPoolExecutor(max_workers=3) (lines 318, 376)
MAX_WORKERS == 3
\* batch_coordinates(coords, batch_size=5) (line 283)
BATCH_SIZE == 5
\* backoff.on_exception(..., max_tries=3) (line 101)
MAX_TRIES == 3

(***************************************************************************)
(* Bounds of the model.                                                    *)
(***************************************************************************)
\* coordinate files (areas) processed in one run of the script
MaxAreas == 2
\* ArcGIS batches queried in one run of the script, all areas together
MaxBatches == 2
\* features in one ArcGIS response
MaxFeatures == 1
\* suffix range and radius used by the area runs of Spec (the plan generator
\* itself is checked with SUFFIX_RANGE and RADIUS under SpecPlan)
RunRange == 2
RunRadius == 1
\* observed suffixes drawn for SpecPlan
MaxKnown == 2
\* codes submitted to one executor under SpecPool
MaxPool == 4

(***************************************************************************)
(* Strings as sequences of characters.                                     *)
(***************************************************************************)
Digits == <<"0", "1", "2", "3", "4", "5", "6", "7", "8", "9">>

DigitChar(d) == Digits[d + 1]

IsDigitChar(ch) == \E i \in 1..10 : Digits[i] = ch

DigitValue(ch) == (CHOOSE i \in 1..10 : Digits[i] = ch) - 1

\* str.isdigit(): non-empty and every character a digit
isdigit(s) == Len(s) > 0 /\ \A i \in 1..Len(s) : IsDigitChar(s[i])

\* int(s) for a string of decimal digits
RECURSIVE int(_)
int(s) == IF Len(s) = 0 THEN 0
          ELSE 10 * int(SubSeq(s, 1, Len(s) - 1)) + DigitValue(s[Len(s)])

\* str(i) for i >= 0
RECURSIVE Decimal(_)
Decimal(i) == IF i < 10 THEN <<DigitChar(i)>>
              ELSE Decimal(i \div 10) \o <<DigitChar(i % 10)>>

\* f"{i:02d}": zero-padded to a width of at least two
Fmt02d(i) == IF i < 10 THEN <<"0">> \o Decimal(i) ELSE Decimal(i)

\* plotcode[:12]
BaseOf(plotcode) == SubSeq(plotcode, 1, IF Len(plotcode) < BASE_LEN THEN Len(plotcode) ELSE BASE_LEN)

\* plotcode[12:]
SuffixOf(plotcode) == SubSeq(plotcode, BASE_LEN + 1, Len(plotcode))

\* line 308 without "len(plotcode) == 14"
WellFormedDigitsOnly(plotcode) == isdigit(SuffixOf(plotcode))

\* len(plotcode) == 14 and plotcode[12:].isdigit()   (line 308)
WellFormed(plotcode) == Len(plotcode) = CODE_LEN /\ isdigit(SuffixOf(plotcode))

\* f"{pltcode_base}{i:02d}"   (lines 364, 370)
MakeCode(pltcode_base, i) == pltcode_base \o Fmt02d(i)

Max(a, b) == IF a > b THEN a ELSE b
Min(a, b) == IF a < b THEN a ELSE b

\* range(lo, hi) as a sequence
Range(lo, hi) == [k \in 1..Max(0, hi - lo) |-> lo + k - 1]

\* the elements of S from the largest down: line 361 taking the observed
\* suffixes in descending order
RECURSIVE SortedDescending(_)
SortedDescending(S) == IF S = {} THEN <<>>
                       ELSE LET m == CHOOSE x \in S : \A y \in S : x >= y
                            IN <<m>> \o SortedDescending(S \ {m})

\* sorted(S) for a finite set of integers
RECURSIVE Sorted(_)
Sorted(S) == IF S = {} THEN <<>>
             ELSE LET m == CHOOSE x \in S : \A y \in S : x <= y
                  IN <<m>> \o Sorted(S \ {m})

SeqToSet(s) == {s[i] : i \in 1..Len(s)}

NoDuplicates(s) == \A i, j \in 1..Len(s) : i # j => s[i] # s[j]

(***************************************************************************)
(* The fallback plan (lines 357-373).  st = [pltcodes, seen] is the list   *)
(* built so far and seen_suffixes[pltcode_base].  n and r stand for the    *)
(* literals 100 and 5 of the source.                                       *)
(***************************************************************************)
\* the loop body without the test of seen_suffixes (line 363, line 369)
ProbeOneUnseen(pltcode_base, i, st, processed) ==
    LET pltcode == MakeCode(pltcode_base, i)
    IN IF Len(pltcode) = CODE_LEN /\ pltcode \notin processed
       THEN [pltcodes |-> Append(st.pltcodes, pltcode), seen |-> st.seen \cup {i}]
       ELSE st

\* the loop body without "pltcode not in processed_plotcodes" (lines 365, 371)
ProbeOneNotExcluding(pltcode_base, i, st, processed) ==
    IF i \notin st.seen
    THEN LET pltcode == MakeCode(pltcode_base, i)
         IN IF Len(pltcode) = CODE_LEN
            THEN [pltcodes |-> Append(st.pltcodes, pltcode), seen |-> st.seen \cup {i}]
            ELSE st
    ELSE st

\* lines 363-367 and 369-373: the body shared by both inner loops
ProbeOne(pltcode_base, i, st, processed) ==
    IF i \notin st.seen
    THEN LET pltcode == MakeCode(pltcode_base, i)
         IN IF Len(pltcode) = CODE_LEN /\ pltcode \notin processed
            THEN [pltcodes |-> Append(st.pltcodes, pltcode), seen |-> st.seen \cup {i}]
            ELSE st
    ELSE st

\* for i in <is>: ...   (the iterations are taken by halves, the state after
\* the first half being the state the second half starts from)
RECURSIVE ProbeAll(_, _, _, _)
ProbeAll(pltcode_base, is, st, processed) ==
    IF Len(is) = 0 THEN st
    ELSE IF Len(is) = 1 THEN ProbeOne(pltcode_base, is[1], st, processed)
    ELSE LET half == Len(is) \div 2
         IN CHOOSE out \in {ProbeAll(pltcode_base, SubSeq(is, half + 1, Len(is)), mid, processed) :
                               mid \in {ProbeAll(pltcode_base, SubSeq(is, 1, half), st, processed)}} : TRUE

\* range(max(0, suffix - 5), min(100, suffix + 6))   (line 362)
Window(suffix, n, r) == Range(Max(0, suffix - r), Min(n, suffix + r + 1))

\* for suffix in sorted(known_suffixes[pltcode_base]): ...   (lines 361-367)
RECURSIVE Neighbourhood(_, _, _, _, _, _)
Neighbourhood(pltcode_base, suffixes, st, processed, n, r) ==
    IF Len(suffixes) = 0 THEN st
    ELSE Neighbourhood(pltcode_base, Tail(suffixes),
                       ProbeAll(pltcode_base, Window(Head(suffixes), n, r), st, processed),
                       processed, n, r)

\* for i in range(100): ...   (lines 368-373)
Sweep(pltcode_base, st, processed, n) ==
    ProbeAll(pltcode_base, Range(0, n), st, processed)

\* one iteration of "for pltcode_base in pltcode_bases" (lines 360-373);
\* seen_suffixes is a defaultdict, so every base starts with an empty set
PlanBase(pltcode_base, known, pltcodes, processed, n, r) ==
    Sweep(pltcode_base,
          Neighbourhood(pltcode_base, Sorted(known),
                        [pltcodes |-> pltcodes, seen |-> {}], processed, n, r),
          processed, n).pltcodes

\* known_suffixes[pltcode_base] of a defaultdict(set)
KnownOf(known_suffixes, pltcode_base) ==
    IF pltcode_base \in DOMAIN known_suffixes THEN known_suffixes[pltcode_base] ELSE {}

\* the whole loop, the bases taken in the order the set iterates them
RECURSIVE Plan(_, _, _, _, _, _)
Plan(order, known_suffixes, pltcodes, processed, n, r) ==
    IF Len(order) = 0 THEN pltcodes
    ELSE Plan(Tail(order), known_suffixes,
              PlanBase(Head(order), KnownOf(known_suffixes, Head(order)), pltcodes, processed, n, r),
              processed, n, r)

\* the orders in which a Python set can be iterated
Orders(S) == {o \in [1..Cardinality(S) -> S] : \A i, j \in 1..Cardinality(S) : i # j => o[i] # o[j]}

\* "Z06572016300": the default base (line 355)
DEFAULT_BASE == <<"Z", "0", "6", "5", "7", "2", "0", "1", "6", "3", "0", "0">>

(***************************************************************************)
(* field_mapping (lines 21-58), in the dict's order.  "primary" and "iis"  *)
(* are the source keys to try, in order: <<>> for None, one key for a      *)
(* string, the list itself for a list.  The "arcgis" column is never read  *)
(* by the code and is left out.                                            *)
(***************************************************************************)
field_mapping == <<
    [csv |-> "District Name",
     primary |-> <<"dstr">>, iis |-> <<>>],
    [csv |-> "Name of the Industrial Area",
     primary |-> <<"nmindar">>, iis |-> <<>>],
    [csv |-> "Project Approved By",
     primary |-> <<"prjapr">>, iis |-> <<>>],
    [csv |-> "Plot Number",
     primary |-> <<"plno">>, iis |-> <<>>],
    [csv |-> "Plot Category",
     primary |-> <<>>, iis |-> <<"plotcat">>],
    [csv |-> "Plot Size",
     primary |-> <<"pltar">>, iis |-> <<"plotsize">>],
    [csv |-> "Plot Rate",
     primary |-> <<>>, iis |-> <<"plotrate">>],
    [csv |-> "Maintenance Charge",
     primary |-> <<>>, iis |-> <<"mainchare">>],
    [csv |-> "Plot Survey No",
     primary |-> <<>>, iis |-> <<"plotsurno">>],
    [csv |-> "Reservation",
     primary |-> <<"rsvr">>, iis |-> <<>>],
    [csv |-> "Area in acres",
     primary |-> <<"pltar">>, iis |-> <<"plotsize">>],
    [csv |-> "Plot Status",
     primary |-> <<"plst">>, iis |-> <<>>],
    [csv |-> "Date of Allotment",
     primary |-> <<"dtaltm">>, iis |-> <<>>],
    [csv |-> "Name of Allottee",
     primary |-> <<"nmalt">>, iis |-> <<>>],
    [csv |-> "Allottee Phone",
     primary |-> <<>>, iis |-> <<"ownphone", "phone", "contact_no", "mobile", "telephone", "allottee_phone">>],
    [csv |-> "Allottee Email",
     primary |-> <<>>, iis |-> <<"ownemail", "email", "email_id", "contact_email", "allottee_email">>],
    [csv |-> "Address of the Allottee",
     primary |-> <<"addalt">>, iis |-> <<>>],
    [csv |-> "Nature Of Industry",
     primary |-> <<"ntrind">>, iis |-> <<>>],
    [csv |-> "Due date for payment",
     primary |-> <<"ddtpmt">>, iis |-> <<>>],
    [csv |-> "Date of Possession",
     primary |-> <<"dtpss">>, iis |-> <<>>],
    [csv |-> "Date of Lease Agreement Executed",
     primary |-> <<"dtleagrex">>, iis |-> <<>>],
    [csv |-> "Stipulated time for commencement of production",
     primary |-> <<"stcmprd">>, iis |-> <<>>],
    [csv |-> "Extension of time Granted",
     primary |-> <<"extgrt">>, iis |-> <<>>],
    [csv |-> "Implementation Status",
     primary |-> <<"implst">>, iis |-> <<>>],
    [csv |-> "Notice under 34-B issued",
     primary |-> <<"n34b">>, iis |-> <<>>],
    [csv |-> "Remarks",
     primary |-> <<"remark">>, iis |-> <<>>],
    [csv |-> "ULPIN",
     primary |-> <<"ulpin">>, iis |-> <<>>],
    [csv |-> "Preapproved Clearances Permissions",
     primary |-> <<"preappoved_clearances_permissions">>, iis |-> <<>>],
    [csv |-> "Preapproved Clearance Details",
     primary |-> <<"preappoved_clearances_permissions_details">>, iis |-> <<>>],
    [csv |-> "Water Availability",
     primary |-> <<"water_availability">>, iis |-> <<>>],
    [csv |-> "Electric Power Availability",
     primary |-> <<"electricpoweravailability">>, iis |-> <<>>],
    [csv |-> "Gaspipeline Connectivity",
     primary |-> <<"gaspipeline_connectivity">>, iis |-> <<>>],
    [csv |-> "OFC",
     primary |-> <<"ofc">>, iis |-> <<>>],
    [csv |-> "STP",
     primary |-> <<"stp">>, iis |-> <<>>],
    [csv |-> "WTP",
     primary |-> <<"wtp">>, iis |-> <<>>],
    [csv |-> "ETP",
     primary |-> <<"etp">>, iis |-> <<>>]
>>

CsvFields == {field_mapping[i].csv : i \in 1..Len(field_mapping)}

InfoByField ==
    [f \in CsvFields |-> field_mapping[CHOOSE i \in 1..Len(field_mapping) : field_mapping[i].csv = f]]

FieldInfo(csv_field) == InfoByField[csv_field]

\* the fields both detail sources can supply
DualFields == {f \in CsvFields : FieldInfo(f).primary # <<>> /\ FieldInfo(f).iis # <<>>}

(***************************************************************************)
(* Transport responses.                                                    *)
(*                                                                         *)
(* What make_request hands back for a JSON call (lines 89-99) is a record  *)
(* [kind, items]:                                                          *)
(*   "failed"       None: the request raised a RequestException            *)
(*   "notjson"      a response whose body response.json() cannot decode    *)
(*   "wrong"        {"d": "\"Wrong Input\""}                               *)
(*   "empty"        "d" missing, null or ""                                *)
(*   "undecodable"  "d" is a string json.loads cannot decode               *)
(*   "list"         "d" decodes to the list of dicts `items`               *)
(*   "scalar"       "d" decodes to a value that is not a list              *)
(* and for the SOAP call made by soap_fallback (lines 101-114):            *)
(*   "failed"       None                                                   *)
(*   "badxml"       ET.fromstring raises, or no <methodResult> element     *)
(*   "noresult"     the result element has no text                         *)
(*   "undecodable"  json.loads(result) raises                              *)
(*   "list"         the result decodes to the list of dicts `items`        *)
(*   "dict"         the result decodes to a non-empty dict                 *)
(***************************************************************************)
PyNone == "<None>"

\* `not v` for a string or None
Falsy(v) == v \in {"", PyNone}

EmptyDict == [k \in {} |-> ""]

Resp(kind) == [kind |-> kind, items |-> <<>>]

RespList(items) == [kind |-> "list", items |-> items]

\* d.get(key): None when the key is absent
Get(d, key) == IF key \in DOMAIN d THEN d[key] ELSE PyNone

\* the exception one run of the body of soap_fallback (lines 103-114) ends
\* with.  make_request catches every RequestException and returns None (lines
\* 97-99), so a failed request makes the body return [] without raising.
SoapException(s) ==
    CASE s.kind = "badxml"      -> "ParseError"
      [] s.kind = "undecodable" -> "JSONDecodeError"
      [] OTHER                  -> "none"

\* backoff.on_exception(backoff.expo, requests.RequestException, max_tries=3)
\* (line 101): the body is run again only after a RequestException, and at
\* most MAX_TRIES times in all.  The number of runs when every run ends as s.
RECURSIVE SoapAttempts(_, _)
SoapAttempts(s, tries) ==
    IF SoapException(s) = "RequestException" /\ tries < MAX_TRIES
    THEN SoapAttempts(s, tries + 1)
    ELSE tries

\* the transport calls of soap_fallback: one per run of its body
SoapCalls(name, s) == [i \in 1..SoapAttempts(s, 1) |-> name]

\* soap_fallback (lines 101-114).  Returns the value, or raises.
soap_fallback(s) ==
    CASE s.kind = "failed"      -> [raise |-> FALSE, val |-> RespList(<<>>)]
      [] s.kind = "badxml"      -> [raise |-> TRUE,  val |-> RespList(<<>>)]
      [] s.kind = "noresult"    -> [raise |-> FALSE, val |-> RespList(<<>>)]
      [] s.kind = "undecodable" -> [raise |-> TRUE,  val |-> RespList(<<>>)]
      [] s.kind = "list"        -> [raise |-> FALSE, val |-> s]
      [] s.kind = "dict"        -> [raise |-> FALSE, val |-> s]

\* line 139 without the loop of lines 140-141
InitRowPlotcodeOnly(plotcode) == [f \in {"Plotcode"} |-> plotcode]

\* lines 138-141
InitRow(plotcode) ==
    [f \in CsvFields \cup {"Plotcode"} |-> IF f = "Plotcode" THEN plotcode ELSE "N/A"]

\* the first key of `keys` that the dict holds, as a sequence of length <= 1
RECURSIVE FirstKey(_, _)
FirstKey(keys, d) ==
    IF Len(keys) = 0 THEN <<>>
    ELSE IF Head(keys) \in DOMAIN d THEN <<Head(keys)>>
    ELSE FirstKey(Tail(keys), d)

\* the primary detail call giving up on a failed JSON request, without lines 147-148
PrimaryDetailsJsonOnly(r1, s1) ==
    [out |-> "none", details |-> EmptyDict, calls |-> <<"json:getdeatilsforidentifier">>]

\* lines 145-160: the primary detail call.
\* out: "details" | "invalid" | "none" (return None) | "raise"
PrimaryDetails(r1, s1) ==
    IF r1.kind = "failed"
    THEN LET sf == soap_fallback(s1)
             calls == <<"json:getdeatilsforidentifier">>
                        \o SoapCalls("soap:getdeatilsforidentifier", s1)
         IN CASE sf.raise ->
                   [out |-> "raise", details |-> EmptyDict, calls |-> calls]
              [] ~sf.raise /\ sf.val.kind = "dict" ->
                   \* details[0] on a dict: KeyError
                   [out |-> "raise", details |-> EmptyDict, calls |-> calls]
              [] OTHER ->
                   [out |-> "details",
                    details |-> IF Len(sf.val.items) > 0 THEN sf.val.items[1] ELSE EmptyDict,
                    calls |-> calls]
    ELSE LET calls == <<"json:getdeatilsforidentifier">>
         IN CASE r1.kind = "notjson" ->
                   [out |-> "raise", details |-> EmptyDict, calls |-> calls]
              [] r1.kind \in {"wrong", "empty"} ->
                   [out |-> "invalid", details |-> EmptyDict, calls |-> calls]
              [] r1.kind = "undecodable" ->
                   [out |-> "none", details |-> EmptyDict, calls |-> calls]
              [] r1.kind = "list" ->
                   [out |-> "details",
                    details |-> IF Len(r1.items) > 0 THEN r1.items[1] ELSE EmptyDict,
                    calls |-> calls]
              [] OTHER ->
                   [out |-> "details", details |-> EmptyDict, calls |-> calls]

\* process_plotcode without the status filter of lines 162-164
EligibleAny(details) == TRUE

\* line 162
Eligible(details) == Get(details, "plst") = "Allotted"

\* lines 167-179
MapPrimary(row, details) ==
    [f \in DOMAIN row |->
        IF f \in CsvFields /\ FirstKey(FieldInfo(f).primary, details) # <<>>
        THEN details[FirstKey(FieldInfo(f).primary, details)[1]]
        ELSE row[f]]

\* lines 183-188: the secondary detail call.  out: "list" | "other" | "raise"
SecondaryDetails(r2, s2) ==
    IF r2.kind = "failed"
    THEN LET sf == soap_fallback(s2)
             calls == <<"json:getplotiisdetails">>
                        \o SoapCalls("soap:getplotiisdetails", s2)
         IN IF sf.raise THEN [out |-> "raise", items |-> <<>>, calls |-> calls]
            ELSE IF sf.val.kind = "list"
            THEN [out |-> "list", items |-> sf.val.items, calls |-> calls]
            ELSE [out |-> "other", items |-> <<>>, calls |-> calls]
    ELSE LET calls == <<"json:getplotiisdetails">>
         IN CASE r2.kind \in {"notjson", "undecodable"} ->
                   [out |-> "raise", items |-> <<>>, calls |-> calls]
              [] r2.kind = "list" ->
                   [out |-> "list", items |-> r2.items, calls |-> calls]
              [] r2.kind = "empty" ->
                   [out |-> "list", items |-> <<>>, calls |-> calls]
              [] OTHER ->
                   \* "wrong" decodes to the string "Wrong Input", "scalar" to a non-list
                   [out |-> "other", items |-> <<>>, calls |-> calls]

\* line 194: the secondary source may fill the field
Unfilled(v) == v = "N/A"

\* lines 192-204
MapSecondary(row, iis_details) ==
    [f \in DOMAIN row |->
        IF /\ f \in CsvFields
           /\ FieldInfo(f).iis # <<>>
           /\ Unfilled(row[f])
           /\ FirstKey(FieldInfo(f).iis, iis_details) # <<>>
        THEN iis_details[FirstKey(FieldInfo(f).iis, iis_details)[1]]
        ELSE row[f]]

\* the primary detail call ended without a record for a reason that may not
\* recur: the request failed and the SOAP fallback gave nothing (lines 146-148,
\* then 162-164), or the payload could not be decoded (lines 158-160)
TransientFailure(r1, s1) ==
    \/ /\ r1.kind = "failed"
       /\ ~soap_fallback(s1).raise
       /\ soap_fallback(s1).val.kind = "list"
       /\ soap_fallback(s1).val.items = <<>>
    \/ r1.kind = "undecodable"

\* process_plotcode without the cache check of lines 134-136
CacheNeverHit(plotcode, cache) == FALSE

\* line 134
CacheHit(plotcode, cache) == plotcode \in cache

NoRow == <<>>

Outcome(ret, row, invalid, calls) ==
    [ret |-> ret, row |-> row, invalid |-> invalid, calls |-> calls]

\* a fetch that caches the code on every outcome of the primary call but an
\* exception, and returns None
FetchAndMergeCachingSkips(plotcode, r1, s1, r2, s2) ==
    LET p == PrimaryDetails(r1, s1)
    IN Outcome(IF p.out = "raise" THEN "raise" ELSE "None", NoRow, p.out # "raise", p.calls)

\* process_plotcode after the cache check (lines 138-206), given the responses
\* of the primary JSON call (r1), of its SOAP fallback (s1), of the secondary
\* JSON call (r2) and of its SOAP fallback (s2).
\* ret: "row" | "None" | "raise"; invalid: the code is added to the cache.
FetchAndMerge(plotcode, r1, s1, r2, s2) ==
    LET p == PrimaryDetails(r1, s1)
    IN CASE p.out = "raise"   -> Outcome("raise", NoRow, FALSE, p.calls)
         [] p.out = "invalid" -> Outcome("None", NoRow, TRUE, p.calls)
         [] p.out = "none"    -> Outcome("None", NoRow, FALSE, p.calls)
         [] OTHER ->
              IF ~Eligible(p.details) THEN Outcome("None", NoRow, FALSE, p.calls)
              ELSE LET row1 == MapPrimary(InitRow(plotcode), p.details)
                       q == SecondaryDetails(r2, s2)
                   IN CASE q.out = "raise" ->
                             Outcome("raise", NoRow, FALSE, p.calls \o q.calls)
                        [] q.out = "list" /\ Len(q.items) > 0 ->
                             Outcome("row", MapSecondary(row1, q.items[1]), FALSE,
                                     p.calls \o q.calls)
                        [] OTHER ->
                             Outcome("row", row1, FALSE, p.calls \o q.calls)

\* process_plotcode (lines 133-206)
ProcessPlotcode(plotcode, cache, r1, s1, r2, s2) ==
    IF CacheHit(plotcode, cache)
    THEN Outcome("None", NoRow, FALSE, <<>>)
    ELSE FetchAndMerge(plotcode, r1, s1, r2, s2)

(***************************************************************************)
(* The world of the area runs: the codes the spatial service can return,   *)
(* the plot numbers, and the responses of the detail services.             *)
(***************************************************************************)
\* an observed base of 12 characters
BASE_A == <<"A", "0", "0", "0", "0", "0", "0", "0", "0", "0", "0", "1">>

\* "A00000000001123": 15 characters, so not of the canonical length
LONG_CODE == BASE_A \o <<"1", "2", "3">>

\* 14 characters with a suffix region that is not all digits
ALPHA_CODE == BASE_A \o <<"0", "X">>

\* what a feature's "plotcode" attribute can be; NoCode is a missing or empty one
NoCode == <<>>

SpatialCodes == {MakeCode(BASE_A, 0), LONG_CODE, ALPHA_CODE}

\* every code an area run can come to fetch
AllCodes == SpatialCodes \cup {MakeCode(b, i) : b \in {BASE_A, DEFAULT_BASE}, i \in 0..(RunRange - 1)}

PlotNumbers == {"P1", "P2"}

Allotted(plno) == RespList(<<[plst |-> "Allotted", plno |-> plno]>>)

\* the responses drawn for one fetch of an area run: [r1, s1, r2, s2]
RunInputs ==
    {[r1 |-> Resp("wrong"), s1 |-> Resp("failed"), r2 |-> Resp("empty"), s2 |-> Resp("failed")],
     [r1 |-> Resp("failed"), s1 |-> Resp("failed"), r2 |-> Resp("empty"), s2 |-> Resp("failed")],
     [r1 |-> RespList(<<[plst |-> "Vacant", plno |-> "P1"]>>), s1 |-> Resp("failed"),
      r2 |-> Resp("empty"), s2 |-> Resp("failed")],
     [r1 |-> Allotted("P1"), s1 |-> Resp("failed"), r2 |-> Resp("undecodable"), s2 |-> Resp("failed")]}
    \cup {[r1 |-> Allotted(p), s1 |-> Resp("failed"), r2 |-> Resp("empty"), s2 |-> Resp("failed")]
            : p \in PlotNumbers}

\* the responses the detail services of area a can give: those of the first
\* area also hold an Allotted record without "plno"
AreaInputs(a) ==
    IF a = 1
    THEN RunInputs \cup {[r1 |-> RespList(<<[plst |-> "Allotted"]>>), s1 |-> Resp("failed"),
                          r2 |-> Resp("empty"), s2 |-> Resp("failed")]}
    ELSE RunInputs

\* the feature lists an ArcGIS response can carry
RECURSIVE SeqsUpTo(_, _)
SeqsUpTo(S, n) ==
    IF n = 0 THEN {<<>>}
    ELSE LET shorter == SeqsUpTo(S, n - 1)
         IN shorter \cup {Append(q, x) : q \in shorter, x \in S}

FeatureLists == SeqsUpTo(SpatialCodes \cup {NoCode}, MaxFeatures)

(***************************************************************************)
(* The ArcGIS feature loop (lines 300-315).                                *)
(***************************************************************************)
\* line 303 without "or plotcode in processed_plotcodes"
SkipFeatureEmptyOnly(plotcode, processed) == plotcode = NoCode

\* line 303: "if not plotcode or plotcode in processed_plotcodes: continue"
SkipFeature(plotcode, processed) == plotcode = NoCode \/ plotcode \in processed

\* st = [plotcodes, processed, bases, known]
FeatureStep(plotcode, st) ==
    IF SkipFeature(plotcode, st.processed) THEN st
    ELSE LET st1 == [st EXCEPT !.processed = @ \cup {plotcode},
                               !.plotcodes = Append(@, plotcode)]
         IN IF WellFormed(plotcode)
            THEN LET pltcode_base == BaseOf(plotcode)
                     suffix == int(SuffixOf(plotcode))
                 IN [st1 EXCEPT !.bases = @ \cup {pltcode_base},
                                !.known = [b \in DOMAIN @ \cup {pltcode_base} |->
                                              IF b = pltcode_base
                                              THEN KnownOf(@, b) \cup {suffix}
                                              ELSE @[b]]]
            ELSE st1

RECURSIVE FeatureLoop(_, _)
FeatureLoop(features, st) ==
    IF Len(features) = 0 THEN st
    ELSE FeatureLoop(Tail(features), FeatureStep(Head(features), st))

(***************************************************************************)
(* State.                                                                  *)
(***************************************************************************)
VARIABLES
    pc,                     \* where the main thread is in the script
    area,                   \* coordinate files started so far
    batches,                \* ArcGIS batches still to query in this area
    queried,                \* ArcGIS batches the run has planned so far (capped by MaxBatches)
    spelling,               \* index of the next (dstr, nmindar) spelling to try
    raised,                 \* an exception is propagating out of a "with" block
    invalid_pltcode_cache,  \* line 87 (process-wide)
    processed_plotcodes,    \* line 279
    pltcode_bases,          \* line 280
    known_suffixes,         \* line 281
    extracted_data,         \* line 278
    expected_plnos,         \* line 331
    extracted_plnos,        \* line 346
    missing_plnos,          \* line 347
    pltcodes,               \* the codes submitted to the current executor
    pending,                \* submitted work items no worker has taken yet
    running,                \* codes whose process_plotcode is past the cache check
    completed,              \* finished futures as_completed has not yielded yet
    summary_data,           \* line 246
    invoked,                \* history: process_plotcode calls per code in this area
    wire,                   \* history: the transport calls of the last step
    yielded,                \* history: <<code, Plot Number>> of the rows returned in this area
    returned,               \* history: how often the spatial batches of this area returned each code
    status_log,             \* history: the status queries of this area, [spelling, resp] each
    transient,              \* history: codes of the spatial batches whose fetch in this area ended in a transient skip
    fetch_in, fetch_out,    \* SpecFetch: one call of process_plotcode
    plan_in, plan_out       \* SpecPlan: one run of the plan generator

areaVars == <<pc, area, batches, queried, spelling, raised, invalid_pltcode_cache, processed_plotcodes,
              pltcode_bases, known_suffixes, extracted_data, expected_plnos, extracted_plnos,
              missing_plnos, pltcodes, pending, running, completed, summary_data,
              invoked, wire, yielded, returned, status_log, transient>>

callVars == <<fetch_in, fetch_out, plan_in, plan_out>>

vars == <<areaVars, callVars>>

NoWire == [code |-> NoCode, calls |-> <<>>]

NotCalled == [ret |-> "not called"]

\* lines 278-281 and the names bound later in the loop body
FreshArea ==
    /\ processed_plotcodes' = {}
    /\ pltcode_bases' = {}
    /\ known_suffixes' = EmptyDict
    /\ extracted_data' = <<>>
    /\ expected_plnos' = {}
    /\ extracted_plnos' = {}
    /\ missing_plnos' = {}
    /\ pltcodes' = <<>>
    /\ invoked' = [c \in AllCodes |-> 0]
    /\ yielded' = {}
    /\ returned' = [c \in AllCodes |-> 0]
    /\ status_log' = <<>>
    /\ transient' = {}

AreaInit ==
    /\ pc = "next_file"
    /\ area = 0
    /\ batches = 0
    /\ queried = 0
    /\ spelling = 1
    /\ raised = FALSE
    /\ invalid_pltcode_cache = {}
    /\ processed_plotcodes = {}
    /\ pltcode_bases = {}
    /\ known_suffixes = EmptyDict
    /\ extracted_data = <<>>
    /\ expected_plnos = {}
    /\ extracted_plnos = {}
    /\ missing_plnos = {}
    /\ pltcodes = <<>>
    /\ pending = <<>>
    /\ running = {}
    /\ completed = {}
    /\ summary_data = <<>>
    /\ invoked = [c \in AllCodes |-> 0]
    /\ wire = NoWire
    /\ yielded = {}
    /\ returned = [c \in AllCodes |-> 0]
    /\ status_log = <<>>
    /\ transient = {}

CallIdle ==
    /\ fetch_in = NotCalled
    /\ fetch_out = NotCalled
    /\ plan_in = NotCalled
    /\ plan_out = NotCalled

Init == AreaInit /\ CallIdle

(***************************************************************************)
(* The main thread: one coordinate file after the other (line 249).        *)
(***************************************************************************)
\* (len(coordinates) + 4) // 5 batches of batch_size=5 (lines 283-293)
BatchCount(ncoords) == (ncoords + BATCH_SIZE - 1) \div BATCH_SIZE

\* the numbers of coordinate pairs a coordinate file can hold: one batch, two batches
CoordCounts == {2, 7}

\* lines 249-290: the next coordinate file is read
NextFile ==
    /\ pc = "next_file"
    /\ area < MaxAreas
    /\ \E ncoords \in CoordCounts :
         /\ queried + BatchCount(ncoords) <= MaxBatches
         /\ batches' = BatchCount(ncoords)
         /\ queried' = queried + BatchCount(ncoords)
    /\ area' = area + 1
    /\ pc' = "arcgis"
    /\ spelling' = 1
    /\ wire' = NoWire
    /\ FreshArea
    /\ UNCHANGED <<raised, invalid_pltcode_cache, pending, running, completed, summary_data>>

\* lines 424-435: no coordinate file is left
Finish ==
    /\ pc = "next_file"
    /\ area >= 1
    /\ pc' = "done"
    /\ wire' = NoWire
    /\ UNCHANGED <<area, batches, queried, spelling, raised, invalid_pltcode_cache, processed_plotcodes,
                   pltcode_bases, known_suffixes, extracted_data, expected_plnos,
                   extracted_plnos, missing_plnos, pltcodes, pending, running, completed,
                   summary_data, invoked, yielded, returned, status_log, transient>>

\* lines 293-322: one ArcGIS batch whose response carries `features`; the new
\* codes are submitted to a fresh executor
ArcgisFeatures ==
    /\ pc = "arcgis"
    /\ batches > 0
    /\ \E features \in FeatureLists :
         LET st == FeatureLoop(features, [plotcodes |-> <<>>,
                                          processed |-> processed_plotcodes,
                                          bases |-> pltcode_bases,
                                          known |-> known_suffixes])
         IN /\ processed_plotcodes' = st.processed
            /\ pltcode_bases' = st.bases
            /\ known_suffixes' = st.known
            /\ returned' = [c \in AllCodes |->
                               returned[c] + Cardinality({i \in 1..Len(features) : features[i] = c})]
            /\ IF Len(features) = 0
               THEN /\ pc' = "arcgis"
                    /\ UNCHANGED <<pltcodes, pending>>
               ELSE /\ pc' = "collect_initial"
                    /\ pltcodes' = st.plotcodes
                    /\ pending' = st.plotcodes
    /\ batches' = batches - 1
    /\ wire' = [code |-> NoCode, calls |-> <<"get:arcgis">>]
    /\ UNCHANGED <<area, queried, spelling, raised, invalid_pltcode_cache, extracted_data, expected_plnos,
                   extracted_plnos, missing_plnos, running, completed, summary_data,
                   invoked, yielded, status_log, transient>>

\* lines 130-131, 294-298: the ArcGIS request failed (make_request returned
\* None, so the data is {}) and the batch is skipped
ArcgisFailed ==
    /\ pc = "arcgis"
    /\ batches > 0
    /\ batches' = batches - 1
    /\ wire' = [code |-> NoCode, calls |-> <<"get:arcgis">>]
    /\ UNCHANGED <<pc, area, queried, spelling, raised, invalid_pltcode_cache, processed_plotcodes,
                   pltcode_bases, known_suffixes, extracted_data, expected_plnos,
                   extracted_plnos, missing_plnos, pltcodes, pending, running, completed,
                   summary_data, invoked, yielded, returned, status_log, transient>>

\* line 131: response.json() raises on a body that is not JSON; nothing
\* catches it and the script ends
ArcgisRaises ==
    /\ pc = "arcgis"
    /\ batches > 0
    /\ pc' = "crashed"
    /\ raised' = TRUE
    /\ wire' = [code |-> NoCode, calls |-> <<"get:arcgis">>]
    /\ UNCHANGED <<area, batches, queried, spelling, invalid_pltcode_cache, processed_plotcodes,
                   pltcode_bases, known_suffixes, extracted_data, expected_plnos,
                   extracted_plnos, missing_plnos, pltcodes, pending, running, completed,
                   summary_data, invoked, yielded, returned, status_log, transient>>

\* line 293: the batch loop is over
ArcgisDone ==
    /\ pc = "arcgis"
    /\ batches = 0
    /\ pc' = "status"
    /\ wire' = NoWire
    /\ UNCHANGED <<area, batches, queried, spelling, raised, invalid_pltcode_cache, processed_plotcodes,
                   pltcode_bases, known_suffixes, extracted_data, expected_plnos,
                   extracted_plnos, missing_plnos, pltcodes, pending, running, completed,
                   summary_data, invoked, yielded, returned, status_log, transient>>

(***************************************************************************)
(* The executor of a fetch stage (lines 318-327 and 376-391).  Work items  *)
(* are taken in submission order by at most max_workers threads; leaving   *)
(* the "with" block, by the end of the loop, by "break" or by an exception,*)
(* is executor.shutdown(wait=True): it returns once every submitted item   *)
(* has run.                                                                *)
(***************************************************************************)
Collecting == pc \in {"collect_initial", "collect_fallback"}
Exiting == pc \in {"exit_initial", "exit_fallback"}

Future(plotcode, out) == [code |-> plotcode, ret |-> out.ret, row |-> out.row]

\* an executor that starts a thread for every submitted work item
ThreadPerItem == TRUE

\* max_workers=3 (lines 318, 376): a work item is taken only by an idle thread
\* of the pool, which has one as long as fewer than MAX_WORKERS items are running
ThreadFree == Cardinality(running) < MAX_WORKERS

\* a worker takes the next work item and runs process_plotcode up to the
\* cache check (lines 133-136)
WorkerStart ==
    /\ Collecting \/ Exiting
    /\ pending # <<>>
    /\ ThreadFree
    /\ LET plotcode == Head(pending)
       IN /\ pending' = Tail(pending)
          /\ invoked' = [invoked EXCEPT ![plotcode] = @ + 1]
          /\ IF CacheHit(plotcode, invalid_pltcode_cache)
             THEN /\ completed' = IF Collecting
                                  THEN completed \cup {Future(plotcode, Outcome("None", NoRow, FALSE, <<>>))}
                                  ELSE completed
                  /\ UNCHANGED running
             ELSE /\ running' = running \cup {plotcode}
                  /\ UNCHANGED completed
    /\ wire' = NoWire
    /\ UNCHANGED <<pc, area, batches, queried, spelling, raised, invalid_pltcode_cache,
                   processed_plotcodes, pltcode_bases, known_suffixes, extracted_data,
                   expected_plnos, extracted_plnos, missing_plnos, pltcodes, summary_data,
                   yielded, returned, status_log, transient>>

\* the rest of process_plotcode (lines 138-206) for a code past the cache check
WorkerFinish ==
    /\ Collecting \/ Exiting
    /\ \E plotcode \in running, in \in AreaInputs(area) :
         LET out == FetchAndMerge(plotcode, in.r1, in.s1, in.r2, in.s2)
         IN /\ running' = running \ {plotcode}
            /\ invalid_pltcode_cache' = IF out.invalid
                                        THEN invalid_pltcode_cache \cup {plotcode}
                                        ELSE invalid_pltcode_cache
            /\ completed' = IF Collecting THEN completed \cup {Future(plotcode, out)}
                            ELSE completed
            /\ wire' = [code |-> plotcode, calls |-> out.calls]
            /\ yielded' = IF out.ret = "row"
                          THEN yielded \cup {<<plotcode, out.row["Plot Number"]>>}
                          ELSE yielded
            /\ transient' = IF out.ret = "None" /\ TransientFailure(in.r1, in.s1) /\ returned[plotcode] > 0
                            THEN transient \cup {plotcode}
                            ELSE transient
    /\ UNCHANGED <<pc, area, batches, queried, spelling, raised, processed_plotcodes, pltcode_bases,
                   known_suffixes, extracted_data, expected_plnos, extracted_plnos,
                   missing_plnos, pltcodes, pending, summary_data, invoked, returned, status_log>>

\* an executor left without waiting for its work items (shutdown(wait=False))
PoolNotAwaited == TRUE

\* every submitted work item has run
PoolIdle == pending = <<>> /\ running = {}

\* lines 323-327: as_completed yields a finished future of the initial fetch
CollectInitial ==
    /\ pc = "collect_initial"
    /\ \E f \in completed :
         /\ completed' = IF f.ret = "raise" THEN {} ELSE completed \ {f}
         /\ pc' = IF f.ret = "raise" THEN "exit_initial" ELSE pc
         /\ raised' = (f.ret = "raise")
         /\ extracted_data' = IF f.ret = "row" THEN Append(extracted_data, f.row)
                              ELSE extracted_data
    /\ wire' = NoWire
    /\ UNCHANGED <<area, batches, queried, spelling, invalid_pltcode_cache, processed_plotcodes,
                   pltcode_bases, known_suffixes, expected_plnos, extracted_plnos,
                   missing_plnos, pltcodes, pending, running, summary_data, invoked, yielded, returned, status_log, transient>>

\* every future of the batch was yielded: on to the next batch (line 293)
EndInitial ==
    /\ pc = "collect_initial"
    /\ PoolIdle /\ completed = {}
    /\ pc' = "arcgis"
    /\ wire' = NoWire
    /\ UNCHANGED <<area, batches, queried, spelling, raised, invalid_pltcode_cache, processed_plotcodes,
                   pltcode_bases, known_suffixes, extracted_data, expected_plnos,
                   extracted_plnos, missing_plnos, pltcodes, pending, running, completed,
                   summary_data, invoked, yielded, returned, status_log, transient>>

\* lines 381-391: as_completed yields a finished future of the fallback fetch
CollectFallback ==
    /\ pc = "collect_fallback"
    /\ \E f \in completed :
         IF f.ret = "raise"
         THEN /\ pc' = "exit_fallback"
              /\ raised' = TRUE
              /\ completed' = {}
              /\ UNCHANGED <<extracted_data, processed_plotcodes, extracted_plnos, missing_plnos>>
         ELSE IF f.ret = "row" /\ f.row["Plot Number"] \in missing_plnos
         THEN LET found == extracted_plnos \cup {f.row["Plot Number"]}
              IN /\ extracted_data' = Append(extracted_data, f.row)
                 /\ processed_plotcodes' = processed_plotcodes \cup {f.row["Plotcode"]}
                 /\ extracted_plnos' = found
                 /\ missing_plnos' = expected_plnos \ found
                 /\ IF expected_plnos \ found = {}
                    THEN pc' = "exit_fallback" /\ completed' = {}
                    ELSE pc' = pc /\ completed' = completed \ {f}
                 /\ UNCHANGED raised
         ELSE /\ completed' = completed \ {f}
              /\ UNCHANGED <<pc, raised, extracted_data, processed_plotcodes, extracted_plnos,
                             missing_plnos>>
    /\ wire' = NoWire
    /\ UNCHANGED <<area, batches, queried, spelling, invalid_pltcode_cache, pltcode_bases, known_suffixes,
                   expected_plnos, pltcodes, pending, running, summary_data, invoked, yielded, returned, status_log, transient>>

\* every future of the plan was yielded (line 381 ends)
EndFallback ==
    /\ pc = "collect_fallback"
    /\ PoolIdle /\ completed = {}
    /\ pc' = "save"
    /\ wire' = NoWire
    /\ UNCHANGED <<area, batches, queried, spelling, raised, invalid_pltcode_cache, processed_plotcodes,
                   pltcode_bases, known_suffixes, extracted_data, expected_plnos,
                   extracted_plnos, missing_plnos, pltcodes, pending, running, completed,
                   summary_data, invoked, yielded, returned, status_log, transient>>

\* the "with" block is left by "break" or by an exception once the executor
\* has run every submitted work item; an exception then ends the script
ExitPool ==
    /\ Exiting
    /\ PoolIdle
    /\ pc' = IF raised THEN "crashed" ELSE "save"
    /\ wire' = NoWire
    /\ UNCHANGED <<area, batches, queried, spelling, raised, invalid_pltcode_cache, processed_plotcodes,
                   pltcode_bases, known_suffixes, extracted_data, expected_plnos,
                   extracted_plnos, missing_plnos, pltcodes, pending, running, completed,
                   summary_data, invoked, yielded, returned, status_log, transient>>

(***************************************************************************)
(* Reconciliation (lines 329-348) and the fallback plan (lines 350-380).   *)
(***************************************************************************)
\* what the status listing can answer: a failed request, the "Wrong Input"
\* sentinel, a body that is not JSON, or a list of plots
StatusResponses ==
    {Resp("failed"), Resp("wrong"), Resp("notjson"),
     RespList(<<>>),
     RespList(<<[plno |-> "P1"]>>),
     RespList(<<[plno |-> "P1"], [plno |-> ""]>>),
     RespList(<<[plno |-> "P1"], [plno |-> "P2"]>>)}

\* the answers of the status listing for area a: the listing of the first area
\* can name a plot "N/A"
AreaStatusResponses(a) ==
    IF a = 1 THEN StatusResponses \cup {RespList(<<[plno |-> "N/A"]>>)} ELSE StatusResponses

\* line 338
ExpectedOf(status_plots) ==
    {Get(status_plots[i], "plno") : i \in {j \in 1..Len(status_plots) :
                                            ~Falsy(Get(status_plots[j], "plno"))}}

\* line 346 finding no Plot Number in the fetched rows
ExtractedPlnosNone(data) == {}

\* line 346
ExtractedPlnos(data) ==
    {data[i]["Plot Number"] : i \in {j \in 1..Len(data) : data[j]["Plot Number"] # "N/A"}}

\* the fallback run whether or not a plot is missing
FallbackAlways(missing) == TRUE

\* line 351: "if missing_plnos:"
FallbackNeeded(missing) == missing # {}

\* lines 345-380, once the status loop has ended with `expected`
Reconcile(expected) ==
    LET extracted == ExtractedPlnos(extracted_data)
        missing == expected \ extracted
        bases == IF pltcode_bases = {} THEN {DEFAULT_BASE} ELSE pltcode_bases
    IN /\ expected_plnos' = expected
       /\ extracted_plnos' = extracted
       /\ missing_plnos' = missing
       /\ IF FallbackNeeded(missing)
          THEN /\ pltcode_bases' = bases
               /\ \E order \in Orders(bases) :
                    /\ pltcodes' = Plan(order, known_suffixes, <<>>, processed_plotcodes,
                                        RunRange, RunRadius)
                    /\ pending' = pltcodes'
               /\ pc' = "collect_fallback"
          ELSE /\ pc' = "save"
               /\ UNCHANGED <<pltcode_bases, pltcodes, pending>>

\* the status query made no match when only a failed request does (line 336
\* without the test of the "Wrong Input" sentinel)
StatusFailedNoResponse(resp) == resp.kind = "failed"

\* line 336, negated: the request failed or the answer is "Wrong Input"
StatusFailed(resp) == resp.kind \in {"failed", "wrong"}

\* lines 334-343: one pass of the loop over the two spellings
StatusQuery ==
    /\ pc = "status"
    /\ \E resp \in AreaStatusResponses(area) :
         /\ status_log' = Append(status_log, [spelling |-> spelling, resp |-> resp])
         /\ CASE resp.kind = "notjson" ->
                   \* response.json() raises (line 336)
                   /\ pc' = "crashed"
                   /\ raised' = TRUE
                   /\ UNCHANGED <<spelling, expected_plnos, extracted_plnos, missing_plnos,
                                  pltcode_bases, pltcodes, pending>>
              [] resp.kind # "notjson" /\ StatusFailed(resp) /\ spelling = 1 ->
                   /\ spelling' = 2
                   /\ UNCHANGED <<pc, raised, expected_plnos, extracted_plnos, missing_plnos,
                                  pltcode_bases, pltcodes, pending>>
              [] resp.kind # "notjson" /\ StatusFailed(resp) /\ spelling = 2 ->
                   /\ Reconcile(expected_plnos)
                   /\ UNCHANGED <<spelling, raised>>
              [] OTHER ->
                   /\ Reconcile(ExpectedOf(resp.items))
                   /\ UNCHANGED <<spelling, raised>>
    /\ wire' = [code |-> NoCode, calls |-> <<"json:Getplotdetailsbystatus">>]
    /\ UNCHANGED <<area, batches, queried, invalid_pltcode_cache, processed_plotcodes, known_suffixes,
                   extracted_data, running, completed, summary_data, invoked, yielded, returned,
                   transient>>

(***************************************************************************)
(* Finalize (lines 393-422).                                               *)
(***************************************************************************)
\* lines 398-401: notna, not "N/A", not ""
HasContact(row) ==
    \/ row["Allottee Phone"] \notin {PyNone, "N/A", ""}
    \/ row["Allottee Email"] \notin {PyNone, "N/A", ""}

\* lines 397-401: rows surviving drop_duplicates(subset=["Plotcode"]) (the first
\* row of each code) that carry a phone or an email
PlotsWithContact(data) ==
    Cardinality({i \in 1..Len(data) :
                   /\ \A j \in 1..(i - 1) : data[j]["Plotcode"] # data[i]["Plotcode"]
                   /\ HasContact(data[i])})

Save ==
    /\ pc = "save"
    /\ summary_data' = Append(summary_data,
                              [total_plots |-> Cardinality(expected_plnos),
                               missed_plots |-> Cardinality(missing_plnos),
                               plots_with_contact |-> PlotsWithContact(extracted_data)])
    /\ pc' = "next_file"
    /\ wire' = NoWire
    /\ UNCHANGED <<area, batches, queried, spelling, raised, invalid_pltcode_cache, processed_plotcodes,
                   pltcode_bases, known_suffixes, extracted_data, expected_plnos,
                   extracted_plnos, missing_plnos, pltcodes, pending, running, completed,
                   invoked, yielded, returned, status_log, transient>>

Next ==
    \/ (NextFile /\ UNCHANGED callVars)
    \/ (Finish /\ UNCHANGED callVars)
    \/ (ArcgisFeatures /\ UNCHANGED callVars)
    \/ (ArcgisFailed /\ UNCHANGED callVars)
    \/ (ArcgisRaises /\ UNCHANGED callVars)
    \/ (ArcgisDone /\ UNCHANGED callVars)
    \/ (WorkerStart /\ UNCHANGED callVars)
    \/ (WorkerFinish /\ UNCHANGED callVars)
    \/ (CollectInitial /\ UNCHANGED callVars)
    \/ (EndInitial /\ UNCHANGED callVars)
    \/ (StatusQuery /\ UNCHANGED callVars)
    \/ (CollectFallback /\ UNCHANGED callVars)
    \/ (EndFallback /\ UNCHANGED callVars)
    \/ (ExitPool /\ UNCHANGED callVars)
    \/ (Save /\ UNCHANGED callVars)

Spec == Init /\ [][Next]_vars

(***************************************************************************)
(* Properties of the area runs (Spec).                                     *)
(***************************************************************************)
\* the future of a call that returned None at the cache check
Skipped(plotcode) == Future(plotcode, Outcome("None", NoRow, FALSE, <<>>))

\* C1: once a code is in invalid_pltcode_cache it stays there, and no later
\* call of process_plotcode for it, in the initial fetch, in the fallback fetch
\* or in a later area, gets past the cache check or issues a transport call.
C1_InvalidCacheMonotonic ==
    [][\A c \in invalid_pltcode_cache :
          /\ c \in invalid_pltcode_cache'
          /\ c \notin running'
          /\ ~(wire'.code = c /\ wire'.calls # <<>>)]_vars

\* a code cached as invalid is met again by the spatial batch of the second
\* area, and its call has just returned None without touching the transport
C1_CachedCodeSkipped ==
    /\ area = 2
    /\ pc = "collect_initial"
    /\ wire = NoWire
    /\ \E c \in invalid_pltcode_cache :
         /\ pltcodes = <<c>>
         /\ invoked[c] = 1
         /\ completed = {Skipped(c)}

\* C2: within one area, process_plotcode is invoked at most once per code: a
\* code returned by several spatial batches is submitted once, and the fallback
\* plan holds no code of processed_plotcodes and no code twice.
C2_FetchedOncePerArea ==
    [][/\ \A c \in AllCodes : invoked'[c] <= 1
       /\ (pc = "status" /\ pc' = "collect_fallback") =>
             /\ NoDuplicates(pltcodes')
             /\ SeqToSet(pltcodes') \cap processed_plotcodes = {}]_vars

\* two spatial batches of one area returned the same code; it was fetched
\* once, and the plan built afterwards leaves it out
C2_RepeatedCodeFetchedOnce ==
    /\ pc = "collect_fallback"
    /\ returned[MakeCode(BASE_A, 0)] = 2
    /\ invoked[MakeCode(BASE_A, 0)] = 1
    /\ MakeCode(BASE_A, 0) \in processed_plotcodes
    /\ pltcodes = <<MakeCode(BASE_A, 1)>>

\* C5: no fetch of a single code aborts its batch: no call of process_plotcode
\* raises, whatever the transport answers, and the main thread never leaves
\* the collection of a batch on an exception.
C5_NoFetchAbortsBatch ==
    /\ \A f \in completed : f.ret # "raise"
    /\ ~(Exiting /\ raised)

\* the identifier was returned by the fetch of a well-formed code of a base
\* the area run uses
Reachable(plno) ==
    \E y \in yielded : y[2] = plno /\ WellFormed(y[1]) /\ BaseOf(y[1]) \in pltcode_bases

\* C6: an area run whose status listing gave a non-empty expected set, every
\* identifier of which is reachable, ends in finalize with an empty missing set.
C6_Convergence ==
    (/\ pc \in {"save", "crashed"}
     /\ expected_plnos # {}
     /\ \A plno \in expected_plnos : Reachable(plno))
    => (pc = "save" /\ missing_plnos = {})

\* C7: once the fallback loop has stopped because the missing set became
\* empty, no planned code starts being fetched any more (no call of
\* process_plotcode gets as far as the transport) and no record is added.
C7_EarlyTermination ==
    [][(pc = "exit_fallback" /\ ~raised /\ missing_plnos = {}) =>
          /\ running' \subseteq running
          /\ extracted_data' = extracted_data]_vars

\* C8: every area the script has started reaches finalize: when the script has
\* ended, each started area has its summary row.
C8_EveryAreaFinalized ==
    pc \in {"done", "crashed"} => Len(summary_data) = area

\* C10: a code of the spatial service whose length is not 14 or whose last two
\* characters are not all digits is never passed to process_plotcode and never
\* causes a transport call.
C10_MalformedNeverProbed ==
    \A c \in AllCodes :
        (invoked[c] > 0 \/ (wire.code = c /\ wire.calls # <<>>)) => WellFormed(c)

\* C11: a code of the wrong length or with a non-digit suffix region adds
\* nothing to pltcode_bases and known_suffixes: every base has 12 characters and
\* is the default base or the base of a code of processed_plotcodes, and every
\* recorded suffix is in 0..99 and is the suffix of a code of
\* processed_plotcodes of the canonical length.
C11_BaseIndexWellFormed ==
    /\ \A b \in pltcode_bases :
          /\ Len(b) = BASE_LEN
          /\ b = DEFAULT_BASE \/ \E c \in processed_plotcodes : Len(c) = CODE_LEN /\ BaseOf(c) = b
    /\ \A b \in DOMAIN known_suffixes :
          /\ b \in pltcode_bases
          /\ \A suffix \in known_suffixes[b] :
                /\ suffix \in 0..(SUFFIX_RANGE - 1)
                /\ MakeCode(b, suffix) \in processed_plotcodes
                /\ Len(MakeCode(b, suffix)) = CODE_LEN

\* both malformed codes were returned by the spatial batches of the area and
\* are in processed_plotcodes, and no base was recorded
C11_MalformedCodesDecomposed ==
    /\ {LONG_CODE, ALPHA_CODE} \subseteq processed_plotcodes
    /\ pltcode_bases = {}
    /\ known_suffixes = EmptyDict
    /\ pc = "status"

\* a step taken by a worker thread of the executor: a work item is taken from
\* the queue, or a call of process_plotcode past the cache check ends
WorkerStep ==
    \/ running' # running
    \/ (pending # <<>> /\ pending' = Tail(pending))

\* C17 as stated: the shared sets are mutated by their owning thread only,
\* which is the main thread: no step of a worker thread changes
\* invalid_pltcode_cache, processed_plotcodes, pltcode_bases or known_suffixes.
C17_MutatedByOwnerOnly ==
    [][WorkerStep => UNCHANGED <<invalid_pltcode_cache, processed_plotcodes,
                                 pltcode_bases, known_suffixes>>]_vars

\* C17, amended: processed_plotcodes, pltcode_bases and known_suffixes are
\* changed by the main thread only; invalid_pltcode_cache is changed by worker
\* threads, but a worker never takes a code that another worker is processing
\* or that is still queued a second time, so no two workers find the same code
\* absent from the cache and both proceed for it.
C17_NoTwoWorkersOnOneCode ==
    [][/\ WorkerStep => UNCHANGED <<processed_plotcodes, pltcode_bases, known_suffixes>>
       /\ (pending # <<>> /\ pending' = Tail(pending)) =>
             /\ Head(pending) \notin running
             /\ Head(pending) \notin SeqToSet(Tail(pending))]_vars

\* a worker has just added the first planned code to the cache while another
\* worker was processing the second planned code
C17_ConcurrentCacheInsert ==
    /\ pc = "collect_fallback"
    /\ pltcodes = <<MakeCode(DEFAULT_BASE, 0), MakeCode(DEFAULT_BASE, 1)>>
    /\ wire.code = MakeCode(DEFAULT_BASE, 0)
    /\ MakeCode(DEFAULT_BASE, 0) \in invalid_pltcode_cache
    /\ running = {MakeCode(DEFAULT_BASE, 1)}
    /\ area = 1

\* the status queries of the area so far follow lines 334-343: the space
\* spelling first, the underscore spelling second and only after a failed
\* request or a "Wrong Input" answer, and nothing after an answer
SpellingsInOrder ==
    /\ Len(status_log) <= 2
    /\ \A i \in 1..Len(status_log) : status_log[i].spelling = i
    /\ \A i \in 1..(Len(status_log) - 1) : status_log[i].resp.kind \in {"failed", "wrong"}
    /\ (pc = "status" /\ Len(status_log) = 1) => status_log[1].resp.kind \in {"failed", "wrong"}
    /\ (pc = "status") => Len(status_log) <= 1

\* the expected set after the status loop: that of the first answer, or empty
\* when both spellings failed
ExpectedFromLog ==
    LET last == status_log[Len(status_log)]
    IN IF last.resp.kind = "list" THEN ExpectedOf(last.resp.items) ELSE {}

\* C18: per area the status listing is queried with the space spelling first
\* and with the underscore spelling only if the first query failed or answered
\* "Wrong Input"; the expected set is that of the first answer, no status query
\* follows it, and the missing set is the expected set minus the Plot Numbers
\* of the records fetched so far ("N/A" standing for a number that is not
\* known, so being none).
C18_SpellingsInSequence ==
    [][/\ SpellingsInOrder'
       /\ (wire'.calls = <<"json:Getplotdetailsbystatus">>) => pc = "status"
       /\ (pc = "status" /\ pc' \in {"save", "collect_fallback"}) =>
             /\ Len(status_log') = 2 => status_log'[1].resp.kind \in {"failed", "wrong"}
             /\ Len(status_log') = 1 => status_log'[1].resp.kind = "list"
             /\ expected_plnos' = ExpectedFromLog'
             /\ missing_plnos' = expected_plnos' \ ({extracted_data[i]["Plot Number"] :
                                                        i \in 1..Len(extracted_data)} \ {"N/A"})]_vars

\* the space spelling answered "Wrong Input", the underscore spelling answered
\* with P1 and P2, P1 was already fetched, and P2 is missing
C18_SecondSpellingAnswered ==
    /\ pc = "collect_fallback"
    /\ Len(status_log) = 2
    /\ status_log[1].resp.kind = "wrong"
    /\ status_log[2].resp.kind = "list"
    /\ expected_plnos = {"P1", "P2"}
    /\ Len(extracted_data) = 1
    /\ extracted_data[1]["Plot Number"] = "P1"
    /\ missing_plnos = {"P2"}
    /\ wire.calls = <<"json:Getplotdetailsbystatus">>

\* the first area of a run has 2 coordinate pairs, so one spatial batch; the
\* batch returned one feature, with the code "A00000000001123"; the fetch of
\* that code returned a record with Plot Number P1; the status listing gave {P1}
ScenarioLongCode ==
    /\ area = 1 /\ queried = 1 /\ batches = 0
    /\ returned = [c \in AllCodes |-> IF c = LONG_CODE THEN 1 ELSE 0]
    /\ yielded = {<<LONG_CODE, "P1">>}
    /\ expected_plnos = {"P1"}

\* C19: in that scenario the area run is finalized with exactly one record,
\* that of the code, and nothing missing.
C19_ScenarioOneRecord ==
    ScenarioLongCode =>
        /\ pc \in {"save", "next_file", "done"}
        /\ Len(extracted_data) = 1
        /\ extracted_data[1]["Plotcode"] = LONG_CODE
        /\ extracted_data[1]["Plot Number"] = "P1"
        /\ missing_plnos = {}
        /\ pc # "save" => (/\ Len(summary_data) = 1
                           /\ summary_data[1].total_plots = 1
                           /\ summary_data[1].missed_plots = 0)

\* the scenario has run to the end of the script
C19_ScenarioFinalized ==
    /\ ScenarioLongCode
    /\ pc = "done"
    /\ Len(extracted_data) = 1
    /\ summary_data = <<[total_plots |-> 1, missed_plots |-> 0, plots_with_contact |-> 0]>>

\* C20: when the spatial batches gave no base and the expected set is {P1},
\* the plan is the suffixes of the default base, every planned code is passed
\* to process_plotcode exactly once, and if no fetched record has Plot Number
\* P1 the area run ends in finalize with missing = {P1}.
C20_DefaultBaseFallback ==
    (/\ pc \in {"save", "crashed"}
     /\ pltcode_bases = {DEFAULT_BASE}
     /\ expected_plnos = {"P1"}
     /\ \A y \in yielded : y[2] # "P1")
    => /\ pc = "save"
       /\ missing_plnos = {"P1"}
       /\ pltcodes = [i \in 1..RunRange |-> MakeCode(DEFAULT_BASE, i - 1)]
       /\ \A i \in 1..Len(pltcodes) : invoked[pltcodes[i]] = 1

C20_DefaultBaseExhausted ==
    /\ pc = "save"
    /\ pltcode_bases = {DEFAULT_BASE}
    /\ expected_plnos = {"P1"}
    /\ missing_plnos = {"P1"}
    /\ \A i \in 1..RunRange : invoked[MakeCode(DEFAULT_BASE, i - 1)] = 1

\* C23: the phases of an area run follow each other.  The status listing is
\* queried only when no spatial batch is left and every code of
\* processed_plotcodes has been fetched to the end; a worker runs fallback
\* codes only after the status loop has ended with a non-empty missing set,
\* and with an empty one the run goes to finalize with nothing planned or
\* queued; finalize happens only when no work item is queued or running.
C23_PhaseOrdering ==
    [][/\ (wire'.calls = <<"json:Getplotdetailsbystatus">>) =>
             /\ batches = 0
             /\ pending = <<>> /\ running = {} /\ completed = {}
             /\ \A c \in processed_plotcodes : invoked[c] = 1
       /\ WorkerStep =>
             IF status_log = <<>>
             THEN pc \in {"collect_initial", "exit_initial"}
             ELSE /\ pc \in {"collect_fallback", "exit_fallback"}
                  /\ expected_plnos # {}
                  /\ running' \cup running \subseteq SeqToSet(pltcodes)
       /\ (pc = "status" /\ pc' = "collect_fallback") =>
             (missing_plnos' # {} /\ pending' = pltcodes')
       /\ (pc = "status" /\ pc' = "save") =>
             (missing_plnos' = {} /\ pending' = <<>> /\ running' = {} /\ pltcodes' = pltcodes)
       /\ (pc # "status" /\ pc' \in {"collect_fallback", "save"}) =>
             pc \in {"collect_fallback", "exit_fallback"}
       /\ summary_data' # summary_data =>
             /\ pc = "save"
             /\ status_log # <<>>
             /\ pending = <<>> /\ running = {}]_vars

\* an area at finalize after all three phases: a code of the spatial batch
\* was fetched, the status listing was answered, the fallback code was fetched
C23_AllPhasesDone ==
    /\ pc = "save"
    /\ returned[MakeCode(BASE_A, 0)] = 1
    /\ invoked[MakeCode(BASE_A, 0)] = 1
    /\ status_log # <<>>
    /\ pltcodes = <<MakeCode(BASE_A, 1)>>
    /\ invoked[MakeCode(BASE_A, 1)] = 1
    /\ pending = <<>> /\ running = {}

\* the Plot Numbers of the records of the results; a record holding "N/A" has
\* no known Plot Number
PlotNumbersOf(data) == {data[i]["Plot Number"] : i \in 1..Len(data)} \ {"N/A"}

\* C24: from reconciliation to finalize the missing set is the expected set
\* minus the Plot Numbers of the records of the results; during the fallback
\* fetch it only shrinks and a record is added only if its Plot Number is in
\* the missing set; at finalize every expected identifier is either missing or
\* the Plot Number of a record, never both.
C24_MissingIsExpectedMinusFound ==
    [][/\ pc' \in {"collect_fallback", "exit_fallback", "save"} =>
             missing_plnos' = expected_plnos' \ PlotNumbersOf(extracted_data')
       /\ pc \in {"collect_fallback", "exit_fallback"} =>
             /\ missing_plnos' \subseteq missing_plnos
             /\ extracted_data' # extracted_data =>
                   /\ extracted_data' = Append(extracted_data, extracted_data'[Len(extracted_data')])
                   /\ PlotNumbersOf(<<extracted_data'[Len(extracted_data')]>>) \subseteq missing_plnos
                   /\ PlotNumbersOf(<<extracted_data'[Len(extracted_data')]>>) # {}
       /\ pc' = "save" =>
             \A plno \in expected_plnos' :
                 (plno \in missing_plnos') # (plno \in PlotNumbersOf(extracted_data'))]_vars

\* the fallback fetch found one of two missing plots and went through its
\* whole plan without the other
C24_OneFoundOneMissing ==
    /\ pc = "save"
    /\ expected_plnos = {"P1", "P2"}
    /\ missing_plnos = {"P2"}
    /\ Len(extracted_data) = 1
    /\ extracted_data[1]["Plot Number"] = "P1"
    /\ extracted_data[1]["Plotcode"] = MakeCode(DEFAULT_BASE, 1)
    /\ invoked[MakeCode(DEFAULT_BASE, 0)] = 1

\* both spellings of the status query of the area failed or answered "Wrong Input"
BothSpellingsFailed ==
    /\ Len(status_log) = 2
    /\ \A i \in 1..2 : status_log[i].resp.kind \in {"failed", "wrong"}

\* C26: when both spellings of the status query failed or answered "Wrong
\* Input", the expected set and the missing set are empty, no fallback code is
\* planned or fetched (the only codes fetched are those of the spatial
\* batches), and the area is finalized with Total Plots = 0 and Missed Plots = 0.
C26_NoListingNoFallback ==
    BothSpellingsFailed =>
        /\ pc \in {"save", "next_file", "done"}
        /\ expected_plnos = {}
        /\ missing_plnos = {}
        /\ pending = <<>> /\ running = {}
        /\ \A c \in AllCodes : invoked[c] > 0 => returned[c] > 0
        /\ pc # "save" =>
              /\ Len(summary_data) = area
              /\ summary_data[area].total_plots = 0
              /\ summary_data[area].missed_plots = 0

\* the first spelling failed on the network, the second answered "Wrong
\* Input"; the area had fetched one record and was finalized with 0 and 0
C26_FinalizedAsConverged ==
    /\ pc = "next_file"
    /\ Len(status_log) = 2
    /\ status_log[1].resp.kind = "failed"
    /\ status_log[2].resp.kind = "wrong"
    /\ Len(extracted_data) = 1
    /\ Len(summary_data) = 1
    /\ summary_data[1].total_plots = 0
    /\ summary_data[1].missed_plots = 0

\* C27: a code of the spatial batches whose fetch ended in a transient skip
\* stays in processed_plotcodes, is in no fallback plan of the area and is
\* fetched once only; and at finalize an expected identifier that no fetched
\* record carried is in the missing set.
C27_TransientSkipNotRetried ==
    /\ \A c \in transient :
          /\ c \in processed_plotcodes
          /\ c \notin invalid_pltcode_cache
          /\ invoked[c] = 1
          /\ pc \in {"collect_fallback", "exit_fallback"} =>
                (c \notin SeqToSet(pltcodes) /\ c \notin running)
    /\ pc = "save" =>
          \A plno \in expected_plnos :
              (\A y \in yielded : y[2] # plno) => plno \in missing_plnos

\* the fetch of the spatial code ...00 failed on the network, the status
\* listing named P1, the plan held ...01 only, whose fetch gave no record
\* either, and the area is at finalize with P1 missing
C27_SkippedCodeLeftOut ==
    /\ pc = "save"
    /\ transient = {MakeCode(BASE_A, 0)}
    /\ pltcodes = <<MakeCode(BASE_A, 1)>>
    /\ invoked[MakeCode(BASE_A, 0)] = 1
    /\ invoked[MakeCode(BASE_A, 1)] = 1
    /\ expected_plnos = {"P1"}
    /\ missing_plnos = {"P1"}
    /\ yielded = {}

(***************************************************************************)
(* SpecFetch: one call of process_plotcode on every combination of         *)
(* transport responses drawn below.                                        *)
(***************************************************************************)
Absent == "<absent>"

\* the dict d with d[k] = v added, unless v is Absent
Put(d, k, v) ==
    IF v = Absent THEN d
    ELSE [x \in DOMAIN d \cup {k} |-> IF x = k THEN v ELSE d[x]]

\* the values a source can carry for a key: empty, null, the literal text
\* "N/A", and two ordinary values
Vals == {"", PyNone, "N/A", "v1", "v2"}

PrimaryDicts ==
    {Put(Put(EmptyDict, "plst", st), "pltar", ar) :
        st \in {Absent, "Allotted", "Vacant"}, ar \in Vals \cup {Absent}}

SecondaryDicts ==
    {Put(Put(Put(Put(EmptyDict, "plotsize", sz), "plotcat", cat), "ownphone", ph1), "phone", ph2) :
        sz \in Vals \cup {Absent}, cat \in {Absent, "", "c1"},
        ph1 \in {Absent, "ph1"}, ph2 \in {Absent, "ph2"}}

JsonKinds == {"failed", "notjson", "wrong", "empty", "undecodable", "scalar"}
SoapKinds == {"failed", "badxml", "noresult", "undecodable", "dict"}

Lists(dicts) == {RespList(<<>>)} \cup {RespList(<<d>>) : d \in dicts}

\* the SOAP response matters only when the JSON request failed
SoapFor(r, dicts) ==
    IF r.kind = "failed" THEN {Resp(k) : k \in SoapKinds} \cup Lists(dicts)
    ELSE {Resp("failed")}

FETCH_CODE == MakeCode(BASE_A, 7)

\* the responses of one detail call: [r, s]
CallInputs(dicts, soapDicts) ==
    UNION {{[r |-> r, s |-> s] : s \in SoapFor(r, soapDicts)} :
             r \in {Resp(k) : k \in JsonKinds} \cup Lists(dicts)}

FetchInputs ==
    {[plotcode |-> FETCH_CODE, cache |-> cache,
      r1 |-> c1.r, s1 |-> c1.s, r2 |-> c2.r, s2 |-> c2.s] :
        cache \in {{}, {FETCH_CODE}},
        c1 \in CallInputs(PrimaryDicts, PrimaryDicts),
        c2 \in CallInputs(SecondaryDicts, {[plotsize |-> "v2"]})}

AreaIdle ==
    /\ pc = "call"
    /\ area = 0
    /\ batches = 0
    /\ queried = 0
    /\ spelling = 1
    /\ raised = FALSE
    /\ invalid_pltcode_cache = {}
    /\ processed_plotcodes = {}
    /\ pltcode_bases = {}
    /\ known_suffixes = EmptyDict
    /\ extracted_data = <<>>
    /\ expected_plnos = {}
    /\ extracted_plnos = {}
    /\ missing_plnos = {}
    /\ pltcodes = <<>>
    /\ pending = <<>>
    /\ running = {}
    /\ completed = {}
    /\ summary_data = <<>>
    /\ invoked = [c \in AllCodes |-> 0]
    /\ wire = NoWire
    /\ yielded = {}
    /\ returned = [c \in AllCodes |-> 0]
    /\ status_log = <<>>
    /\ transient = {}

InitFetch ==
    /\ AreaIdle
    /\ fetch_in \in FetchInputs
    /\ fetch_out = NotCalled
    /\ plan_in = NotCalled
    /\ plan_out = NotCalled

FetchCall ==
    /\ fetch_out = NotCalled
    /\ fetch_out' = ProcessPlotcode(fetch_in.plotcode, fetch_in.cache,
                                    fetch_in.r1, fetch_in.s1, fetch_in.r2, fetch_in.s2)
    /\ UNCHANGED <<areaVars, fetch_in, plan_in, plan_out>>

SpecFetch == InitFetch /\ [][FetchCall]_vars

(***************************************************************************)
(* Properties of one call of process_plotcode (SpecFetch).                 *)
(***************************************************************************)
\* the primary record the call works on, and the row after the primary mapping
PrimaryOf(in) == PrimaryDetails(in.r1, in.s1).details
AfterPrimary(in) == MapPrimary(InitRow(in.plotcode), PrimaryOf(in))

\* the secondary record, EmptyDict if the secondary source gave none
SecondaryOf(in) ==
    LET q == SecondaryDetails(in.r2, in.s2)
    IN IF q.out = "list" /\ Len(q.items) > 0 THEN q.items[1] ELSE EmptyDict

\* C3: for every field both sources can supply, the returned record carries
\* the primary value whenever that value is present and non-empty, and differs
\* from the row of the primary mapping only where that row still held "N/A".
C3_MergePrecedence ==
    fetch_out.ret = "row" =>
        \A f \in DualFields :
            LET details == PrimaryOf(fetch_in)
                k == FirstKey(FieldInfo(f).primary, details)
            IN /\ (k # <<>> /\ ~Falsy(details[k[1]])) => fetch_out.row[f] = details[k[1]]
               /\ fetch_out.row[f] # AfterPrimary(fetch_in)[f] => AfterPrimary(fetch_in)[f] = "N/A"

\* C4: a field is overwritten only by a non-empty value: a primary key that
\* carries "" or None leaves the field at "N/A", a non-empty secondary value
\* can then fill it, and no returned record holds "" or None in a field.
C4_OnlyNonEmptyOverwrites ==
    fetch_out.ret = "row" =>
        /\ \A f \in CsvFields : ~Falsy(fetch_out.row[f])
        /\ \A f \in DualFields :
             LET details == PrimaryOf(fetch_in)
                 k == FirstKey(FieldInfo(f).primary, details)
                 k2 == FirstKey(FieldInfo(f).iis, SecondaryOf(fetch_in))
             IN (/\ k # <<>> /\ Falsy(details[k[1]])
                 /\ k2 # <<>> /\ ~Falsy(SecondaryOf(fetch_in)[k2[1]]))
                => fetch_out.row[f] = SecondaryOf(fetch_in)[k2[1]]

\* the transport call `name` was made by the call of process_plotcode
Called(name) ==
    /\ fetch_out.ret # "not called"
    /\ \E i \in 1..Len(fetch_out.calls) : fetch_out.calls[i] = name

\* C12 as stated: for either detail call, a JSON attempt that failed on the
\* network or came back with the "Wrong Input" sentinel is followed by the
\* SOAP attempt for the same code.
C12_FallbackOnFailureOrSentinel ==
    /\ (Called("json:getdeatilsforidentifier") /\ fetch_in.r1.kind \in {"failed", "wrong"})
          => Called("soap:getdeatilsforidentifier")
    /\ (Called("json:getplotiisdetails") /\ fetch_in.r2.kind \in {"failed", "wrong"})
          => Called("soap:getplotiisdetails")

\* C12, amended: for either detail call, the SOAP attempt is made exactly when
\* the JSON attempt gave no response (make_request returned None); a response
\* carrying the "Wrong Input" sentinel is not followed by a SOAP attempt.
C12_FallbackOnFailureOnly ==
    /\ Called("soap:getdeatilsforidentifier")
          <=> (Called("json:getdeatilsforidentifier") /\ fetch_in.r1.kind = "failed")
    /\ Called("soap:getplotiisdetails")
          <=> (Called("json:getplotiisdetails") /\ fetch_in.r2.kind = "failed")

\* both JSON attempts failed on the network, both SOAP attempts were made, and
\* the record was built from the SOAP answers
C12_BothFallbacksUsed ==
    /\ fetch_out.ret = "row"
    /\ fetch_in.r1.kind = "failed" /\ fetch_in.s1.kind = "list"
    /\ fetch_in.r2.kind = "failed" /\ fetch_in.s2.kind = "list"
    /\ fetch_out.calls = <<"json:getdeatilsforidentifier", "soap:getdeatilsforidentifier",
                           "json:getplotiisdetails", "soap:getplotiisdetails">>

\* C13: the call adds its code to invalid_pltcode_cache exactly when the
\* primary JSON response was received and its "d" is the "Wrong Input" sentinel
\* or empty; it then returns None having made the primary JSON call only.  A
\* failed request, an undecodable payload or a status other than "Allotted"
\* never adds the code.
C13_CachedExactlyOnInvalid ==
    fetch_out.ret # "not called" =>
        /\ fetch_out.invalid <=> (/\ fetch_in.plotcode \notin fetch_in.cache
                                   /\ fetch_in.r1.kind \in {"wrong", "empty"})
        /\ fetch_out.invalid => (/\ fetch_out.ret = "None"
                                  /\ fetch_out.calls = <<"json:getdeatilsforidentifier">>)

\* a primary response with an empty "d": the code is cached and the call
\* returns None after the one JSON call
C13_EmptyPayloadCached ==
    /\ fetch_out.ret = "None"
    /\ fetch_out.invalid
    /\ fetch_in.r1.kind = "empty"
    /\ fetch_out.calls = <<"json:getdeatilsforidentifier">>

\* how many times the call made the transport call `name`
TimesCalled(name) ==
    Cardinality({i \in 1..Len(fetch_out.calls) : fetch_out.calls[i] = name})

\* C14: a SOAP attempt that fails on the network is retried, the attempts of
\* one logical call never exceed MAX_TRIES, and the call then gives up with an
\* empty result (no record from that source, no exception).
C14_FallbackRetried ==
    /\ (Called("soap:getdeatilsforidentifier") /\ fetch_in.s1.kind = "failed") =>
          /\ TimesCalled("soap:getdeatilsforidentifier") \in 2..MAX_TRIES
          /\ fetch_out.ret = "None"
    /\ (Called("soap:getplotiisdetails") /\ fetch_in.s2.kind = "failed") =>
          /\ TimesCalled("soap:getplotiisdetails") \in 2..MAX_TRIES
          /\ fetch_out.ret = "row"

\* C16: the call returns a record only when the "plst" of the primary
\* details is "Allotted", and the record's Plot Status is then "Allotted"; with
\* any other status, or none, the call returns None without a secondary call.
C16_OnlyAllottedReturned ==
    /\ fetch_out.ret = "row" =>
          /\ Get(PrimaryOf(fetch_in), "plst") = "Allotted"
          /\ fetch_out.row["Plot Status"] = "Allotted"
    /\ (/\ fetch_out.ret # "not called"
        /\ fetch_in.plotcode \notin fetch_in.cache
        /\ PrimaryDetails(fetch_in.r1, fetch_in.s1).out = "details"
        /\ Get(PrimaryOf(fetch_in), "plst") # "Allotted")
       => (fetch_out.ret = "None" /\ ~Called("json:getplotiisdetails"))

\* primary details that carry a plot size but no status: the call returned None
C16_MissingStatusSkipped ==
    /\ fetch_out.ret = "None"
    /\ fetch_in.plotcode \notin fetch_in.cache
    /\ fetch_in.r1.kind = "list"
    /\ Len(fetch_in.r1.items) = 1
    /\ DOMAIN fetch_in.r1.items[1] = {"pltar"}

\* the values the sources of the call hold for the field: those of the primary
\* details under the field's primary keys and of the secondary record under
\* its iis keys
SourceValues(in, f) ==
    {PrimaryOf(in)[FieldInfo(f).primary[i]] :
        i \in {j \in 1..Len(FieldInfo(f).primary) : FieldInfo(f).primary[j] \in DOMAIN PrimaryOf(in)}}
    \cup {SecondaryOf(in)[FieldInfo(f).iis[i]] :
        i \in {j \in 1..Len(FieldInfo(f).iis) : FieldInfo(f).iis[j] \in DOMAIN SecondaryOf(in)}}

\* C21: every record returned by process_plotcode has the key Plotcode, holding
\* the code of the call, and every field of field_mapping, each holding "N/A"
\* or a value one of the two sources carries for that field; the mappings
\* remove no key.
C21_EveryFieldPresent ==
    fetch_out.ret = "row" =>
        /\ DOMAIN fetch_out.row = CsvFields \cup {"Plotcode"}
        /\ DOMAIN AfterPrimary(fetch_in) = DOMAIN InitRow(fetch_in.plotcode)
        /\ fetch_out.row["Plotcode"] = fetch_in.plotcode
        /\ \A f \in CsvFields :
              fetch_out.row[f] = "N/A" \/ fetch_out.row[f] \in SourceValues(fetch_in, f)

\* a record with a field from the primary source, a field from the secondary
\* source and fields no source supplied
C21_SparseRecord ==
    /\ fetch_out.ret = "row"
    /\ fetch_out.row["Plot Size"] = "v1"
    /\ fetch_out.row["Plot Category"] = "c1"
    /\ fetch_out.row["Allottee Phone"] = "N/A"
    /\ fetch_out.row["Remarks"] = "N/A"
    /\ Cardinality(DOMAIN fetch_out.row) = Len(field_mapping) + 1

(***************************************************************************)
(* SpecPlan: the plan generator on one base, with the literals 100 and 5   *)
(* of the source, for every set of at most MaxKnown observed suffixes.     *)
(***************************************************************************)
\* the subsets of S with at most n elements
RECURSIVE SetsUpTo(_, _)
SetsUpTo(S, n) ==
    IF n = 0 THEN {{}}
    ELSE LET smaller == SetsUpTo(S, n - 1)
         IN smaller \cup {K \cup {x} : K \in smaller, x \in S}

KnownSets == SetsUpTo(0..(SUFFIX_RANGE - 1), MaxKnown)

InitPlan ==
    /\ AreaIdle
    /\ \E base \in {BASE_A, DEFAULT_BASE}, K \in KnownSets, excluded \in BOOLEAN :
         plan_in = [base |-> base, known |-> K,
                    processed |-> IF excluded THEN {MakeCode(base, k) : k \in K} ELSE {}]
    /\ plan_out = NotCalled
    /\ fetch_in = NotCalled
    /\ fetch_out = NotCalled

PlanCall ==
    /\ plan_out = NotCalled
    /\ plan_out' = [ret |-> "plan",
                    pltcodes |-> Plan(<<plan_in.base>>,
                                      [b \in {plan_in.base} |-> plan_in.known],
                                      <<>>, plan_in.processed, SUFFIX_RANGE, RADIUS)]
    /\ UNCHANGED <<areaVars, fetch_in, fetch_out, plan_in>>

SpecPlan == InitPlan /\ [][PlanCall]_vars

(***************************************************************************)
(* Properties of the plan generator (SpecPlan).                            *)
(***************************************************************************)
\* C9: with an empty processed_plotcodes, the plan of a base, neighbourhoods
\* first and sweep after, holds each of the 100 codes base+00..base+99 exactly
\* once, whatever suffixes were observed.
C9_PlanExhaustive ==
    (plan_out.ret = "plan" /\ plan_in.processed = {}) =>
        /\ Len(plan_out.pltcodes) = SUFFIX_RANGE
        /\ SeqToSet(plan_out.pltcodes) =
              {MakeCode(plan_in.base, i) : i \in 0..(SUFFIX_RANGE - 1)}

\* two observed suffixes with overlapping neighbourhoods, the second clipped
\* at 99: the plan starts with the first neighbourhood and ends with the sweep
C9_OverlappingNeighbourhoods ==
    /\ plan_out.ret = "plan"
    /\ plan_in.processed = {}
    /\ plan_in.known = {92, 97}
    /\ plan_out.pltcodes[1] = MakeCode(plan_in.base, 87)
    /\ plan_out.pltcodes[13] = MakeCode(plan_in.base, 99)
    /\ plan_out.pltcodes[14] = MakeCode(plan_in.base, 0)
    /\ plan_out.pltcodes[SUFFIX_RANGE] = MakeCode(plan_in.base, 86)

\* the observed suffixes whose window holds the suffix i
Covering(i) == {k \in plan_in.known : i >= k - RADIUS /\ i <= k + RADIUS}

\* the smallest observed suffix whose window holds i
FirstCovering(i) == CHOOSE k \in Covering(i) : \A m \in Covering(i) : k <= m

\* the suffix i is planned before the suffix j: a neighbourhood suffix before
\* a sweep suffix; neighbourhood suffixes by the observed suffix that first
\* covers them and then ascending; sweep suffixes ascending
PlannedBefore(i, j) ==
    IF Covering(i) # {} /\ Covering(j) # {}
    THEN \/ FirstCovering(i) < FirstCovering(j)
         \/ FirstCovering(i) = FirstCovering(j) /\ i < j
    ELSE IF Covering(i) = {} /\ Covering(j) = {} THEN i < j
    ELSE Covering(i) # {}

\* C22: the plan of a base lists the neighbourhood codes first, by observed
\* suffix ascending and within a window ascending, each suffix once, and the
\* remaining suffixes of 0..99 ascending after them; it holds exactly the codes
\* of the base that are not in processed_plotcodes, each of 14 characters with
\* a two-digit suffix.
C22_PlanOrder ==
    plan_out.ret = "plan" =>
        LET plan == plan_out.pltcodes
        IN /\ \A a \in 1..Len(plan) :
                 /\ WellFormed(plan[a])
                 /\ BaseOf(plan[a]) = plan_in.base
                 /\ int(SuffixOf(plan[a])) \in 0..(SUFFIX_RANGE - 1)
                 /\ plan[a] \notin plan_in.processed
           /\ \A a \in 1..(Len(plan) - 1) :
                 PlannedBefore(int(SuffixOf(plan[a])), int(SuffixOf(plan[a + 1])))
           /\ SeqToSet(plan) =
                 {MakeCode(plan_in.base, i) : i \in 0..(SUFFIX_RANGE - 1)} \ plan_in.processed

\* the observed codes 92 and 97 are in processed_plotcodes: the plan holds the
\* window of 92 without them, then 98 and 99 of the window of 97, then the
\* sweep from 00 to 86
C22_ObservedCodesLeftOut ==
    /\ plan_out.ret = "plan"
    /\ plan_in.known = {92, 97}
    /\ plan_in.processed = {MakeCode(plan_in.base, 92), MakeCode(plan_in.base, 97)}
    /\ Len(plan_out.pltcodes) = SUFFIX_RANGE - 2
    /\ plan_out.pltcodes[1] = MakeCode(plan_in.base, 87)
    /\ plan_out.pltcodes[5] = MakeCode(plan_in.base, 91)
    /\ plan_out.pltcodes[6] = MakeCode(plan_in.base, 93)
    /\ plan_out.pltcodes[9] = MakeCode(plan_in.base, 96)
    /\ plan_out.pltcodes[10] = MakeCode(plan_in.base, 98)
    /\ plan_out.pltcodes[11] = MakeCode(plan_in.base, 99)
    /\ plan_out.pltcodes[12] = MakeCode(plan_in.base, 0)
    /\ plan_out.pltcodes[SUFFIX_RANGE - 2] = MakeCode(plan_in.base, 86)

(***************************************************************************)
(* SpecPool: one executor with MaxPool submitted codes, more than it has   *)
(* threads, in the initial fetch of a batch and in the fallback fetch.     *)
(***************************************************************************)
\* the codes of the pool: MaxPool codes of one base
PoolCodes(base) == [i \in 1..MaxPool |-> MakeCode(base, i - 1)]

PoolDomain == AllCodes \cup SeqToSet(PoolCodes(BASE_A)) \cup SeqToSet(PoolCodes(DEFAULT_BASE))

\* lines 293-322: the first batch of the first area returned MaxPool new codes
InitialPool ==
    LET features == PoolCodes(BASE_A)
        st == FeatureLoop(features, [plotcodes |-> <<>>, processed |-> {},
                                     bases |-> {}, known |-> EmptyDict])
    IN /\ pc = "collect_initial"
       /\ processed_plotcodes = st.processed
       /\ pltcode_bases = st.bases
       /\ known_suffixes = st.known
       /\ pltcodes = st.plotcodes
       /\ pending = st.plotcodes
       /\ returned = [c \in PoolDomain |-> IF c \in SeqToSet(features) THEN 1 ELSE 0]
       /\ expected_plnos = {}
       /\ missing_plnos = {}
       /\ status_log = <<>>
       /\ wire = [code |-> NoCode, calls |-> <<"get:arcgis">>]

\* lines 329-380: the spatial batch of the first area returned nothing, the
\* status listing named P1 and P2, and the plan of the default base, with
\* MaxPool for the literal 100 and RunRadius for the literal 5, was submitted
FallbackPool ==
    /\ pc = "collect_fallback"
    /\ processed_plotcodes = {}
    /\ pltcode_bases = {DEFAULT_BASE}
    /\ known_suffixes = EmptyDict
    /\ pltcodes = Plan(<<DEFAULT_BASE>>, EmptyDict, <<>>, {}, MaxPool, RunRadius)
    /\ pending = pltcodes
    /\ returned = [c \in PoolDomain |-> 0]
    /\ expected_plnos = {"P1", "P2"}
    /\ missing_plnos = {"P1", "P2"}
    /\ status_log = <<[spelling |-> 1, resp |-> RespList(<<[plno |-> "P1"], [plno |-> "P2"]>>)]>>
    /\ wire = [code |-> NoCode, calls |-> <<"json:Getplotdetailsbystatus">>]

InitPool ==
    /\ InitialPool \/ FallbackPool
    /\ area = 1
    /\ batches = 0
    /\ queried = 1
    /\ spelling = 1
    /\ raised = FALSE
    /\ invalid_pltcode_cache = {}
    /\ extracted_data = <<>>
    /\ extracted_plnos = {}
    /\ running = {}
    /\ completed = {}
    /\ summary_data = <<>>
    /\ invoked = [c \in PoolDomain |-> 0]
    /\ yielded = {}
    /\ transient = {}
    /\ CallIdle

NextPool ==
    \/ (WorkerStart /\ UNCHANGED callVars)
    \/ (WorkerFinish /\ UNCHANGED callVars)
    \/ (CollectInitial /\ UNCHANGED callVars)
    \/ (EndInitial /\ UNCHANGED callVars)
    \/ (CollectFallback /\ UNCHANGED callVars)
    \/ (EndFallback /\ UNCHANGED callVars)
    \/ (ExitPool /\ UNCHANGED callVars)

SpecPool == InitPool /\ [][NextPool]_vars

(***************************************************************************)
(* Properties of the executor (SpecPool).                                  *)
(***************************************************************************)
\* C25: in the initial fetch and in the fallback fetch, at most MAX_WORKERS
\* calls of process_plotcode are running at any time, however many codes were
\* submitted, and a code waits in the queue while MAX_WORKERS calls are running.
C25_BoundedFanOut ==
    [][/\ Cardinality(running') <= MAX_WORKERS
       /\ (pending # <<>> /\ pending' = Tail(pending)) => Cardinality(running) < MAX_WORKERS]_vars

\* three calls of the fallback fetch are running and the fourth planned code
\* is waiting in the queue
C25_FourthCodeWaits ==
    /\ pc = "collect_fallback"
    /\ Len(pltcodes) = MaxPool
    /\ Cardinality(running) = MAX_WORKERS
    /\ pending = <<MakeCode(DEFAULT_BASE, MaxPool - 1)>>
    /\ completed = {}

====
